---- MODULE Spec2Model ----
(***************************************************************************)
(* Model of the AkasaAir data-engineering pipeline:                        *)
(*   src/src/in_memory_pipeline.py   in-memory loaders and KPIs            *)
(*   src/src/load_to_mysql.py        loaders feeding the relational store  *)
(*   src/src/run_kpis_sql_fast.py    summary refresh and KPI queries       *)
(*                                                                         *)
(* Time is counted in half-hours.  Strings that the code edits character   *)
(* by character (mobile numbers) are sequences of one-character strings.   *)
(***************************************************************************)
EXTENDS Integers, Sequences, FiniteSets, TLC

VARIABLES
    rawCustomers,   \* rows of the customers CSV file
    rawOrders,      \* lines of the orders XML file
    clock,          \* the wall clock of the machine, in UTC
    tieBreak,       \* order in which this build's unstable sort leaves equal keys
    pc,             \* position of in_memory_pipeline in its run
    NOW_UTC,        \* in_memory_pipeline.NOW_UTC
    customers,      \* main: customers
    orders,         \* main: orders
    kpis,           \* main: repeat, monthly, regional, top30
    prevRun,        \* what the previous run of in_memory_pipeline produced
    db,             \* the MySQL store: its committed tables
    dbTie,          \* order in which the MySQL server returns rows of equal sort key
    txn,            \* rows inserted by the open transaction, not yet committed
    up,             \* load_to_mysql: position, customers, orders
    sq,             \* run_kpis_sql_fast: position, repeat, monthly, regional, top30
    seen            \* what a concurrent reader of orders_monthly last read

memVars == <<pc, NOW_UTC, customers, orders, kpis, prevRun>>

inputVars == <<rawCustomers, rawOrders>>

sqlVars == <<db, dbTie, txn, up, sq, seen>>

vars == <<rawCustomers, rawOrders, clock, tieBreak, pc, NOW_UTC, customers, orders, kpis, prevRun,
          db, dbTie, txn, up, sq, seen>>

(***************************************************************************)
(* Missing values                                                          *)
(***************************************************************************)
\* pandas <NA> in a string column read as an identifier
NA == "<NA>"

\* pandas <NA> in a string column that the code edits by characters
NAStr == <<"<NA>">>

\* pandas NaT in a datetime column
NaT == [nat |-> TRUE, t |-> 0]

Ts(t) == [nat |-> FALSE, t |-> t]

(***************************************************************************)
(* Record normalisation: str.replace(r"\D+", "", regex=True)               *)
(***************************************************************************)
Digits == {"0", "1", "2", "3", "4", "5", "6", "7", "8", "9"}

IsDigit(c) == c \in Digits

\* an <NA> stays <NA>; every other string keeps its digits only
StripNonDigits(s) == IF s = NAStr THEN NAStr ELSE SelectSeq(s, IsDigit)

\* pd.to_numeric(errors="coerce").fillna(0.0): text that is no number gives 0
ToNumericFill0(a) == IF a.num THEN a.v ELSE 0

(***************************************************************************)
(* The civil time zone (SOURCE_TZ, BUSINESS_TZ)                            *)
(***************************************************************************)
\* standard offset of the zone from UTC: +05:30
StdOffset == 11

\* length of the skipped and of the repeated hour
DstShift == 2

\* local 02:00 of the spring-forward date: 02:00 .. 03:00 does not exist
GapStart == 4

\* local 02:00 of the fall-back date: 02:00 .. 03:00 happens twice
FoldStart == 100

GapEnd == GapStart + DstShift

FoldEnd == FoldStart + DstShift

Nonexistent(l) == GapStart <= l /\ l < GapEnd

Ambiguous(l) == FoldStart <= l /\ l < FoldEnd

\* offset in force at an existing, unambiguous local time
OffsetAtLocal(l) == IF GapEnd <= l /\ l < FoldStart THEN StdOffset + DstShift ELSE StdOffset

\* offset in force at a UTC instant
OffsetAtUtc(u) ==
    IF GapStart - StdOffset <= u /\ u < FoldStart - StdOffset
    THEN StdOffset + DstShift ELSE StdOffset

\* the variant that raises instead
ErrorsRaise == "raise"

\* pd.to_datetime(..., errors="coerce")
ErrorsMode == "coerce"

\* tz_localize(..., ambiguous="NaT")
AmbiguousMode == "NaT"

\* pd.to_datetime(errors="coerce"): unparseable text gives NaT
ToDatetimeCoerce(raw) == IF raw.parse THEN Ts(raw.local) ELSE NaT

\* whether resolving this raw timestamp raises (ValueError, AmbiguousTimeError)
ResolveRaises(raw) ==
    \/ ~raw.parse /\ ErrorsMode = "raise"
    \/ raw.parse /\ Ambiguous(raw.local) /\ AmbiguousMode = "raise"

\* the local time variant: a nonexistent time moved by the length of the gap
ShiftByGap(l) == l + DstShift

\* nonexistent="shift_forward": the closest existing time after the gap
ShiftForward(l) == GapEnd

\* .dt.tz_localize(zone, ambiguous="NaT", nonexistent="shift_forward"):
\* the resolved local wall-clock time, or NaT
TzLocalize(d) ==
    IF d.nat THEN NaT
    ELSE IF Ambiguous(d.t) THEN NaT
    ELSE IF Nonexistent(d.t) THEN Ts(ShiftForward(d.t))
    ELSE Ts(d.t)

\* .dt.tz_convert(timezone.utc) of a resolved local time
TzConvertUtc(d) == IF d.nat THEN NaT ELSE Ts(d.t - OffsetAtLocal(d.t))

\* .dt.tz_convert(zone) of a UTC instant: the local wall-clock time
ToLocal(u) == u + OffsetAtUtc(u)

\* the whole resolution of one raw timestamp (lines 56-59)
ResolveUtc(raw) == TzConvertUtc(TzLocalize(ToDatetimeCoerce(raw)))

(***************************************************************************)
(* Ordering helpers                                                        *)
(***************************************************************************)
\* the sequence of the elements of S in the strict total order Less
SortSet(S, Less(_, _)) ==
    IF S = {} THEN <<>>
    ELSE CHOOSE s \in [1..Cardinality(S) -> S] :
            /\ \A i, j \in 1..Cardinality(S) : i < j => Less(s[i], s[j])

\* rank of the identifiers and names in the sort order of their strings
StrRank(s) ==
    CASE s = "A" -> 1 [] s = "B" -> 2 [] s = "C" -> 3
      [] s = "East" -> 4 [] s = "North" -> 5
      [] s = "O1" -> 6 [] s = "O2" -> 7 [] s = "O3" -> 8 [] s = "O4" -> 9
      [] s = "Unknown" -> 10
      [] OTHER -> 11

StrLess(a, b) == StrRank(a) < StrRank(b)

\* code point order of the characters of a mobile number
CharRank(c) ==
    CASE c = "-" -> 0 [] c = "0" -> 1 [] c = "1" -> 2 [] c = "2" -> 3 [] c = "3" -> 4
      [] c = "4" -> 5 [] c = "5" -> 6 [] c = "6" -> 7 [] c = "7" -> 8
      [] c = "8" -> 9 [] OTHER -> 10

\* lexicographic order of strings
RECURSIVE LexLess(_, _)
LexLess(a, b) ==
    IF b = <<>> THEN FALSE
    ELSE IF a = <<>> THEN TRUE
    ELSE IF Head(a) = Head(b) THEN LexLess(Tail(a), Tail(b))
    ELSE CharRank(Head(a)) < CharRank(Head(b))

(***************************************************************************)
(* load_orders_xml                                                         *)
(***************************************************************************)
\* lines 52-59: the columns added to one raw line
NormalizeOrderLine(l) ==
    [order_id      |-> l.order_id,
     mobile_number |-> StripNonDigits(l.mobile_number),
     total_amount  |-> ToNumericFill0(l.total_amount),
     order_dt_utc  |-> ResolveUtc(l.order_date_time)]

MapSeq(s, F(_)) == [i \in 1..Len(s) |-> F(s[i])]

\* line 61: dropna(subset=["order_id", "mobile_number", "order_dt_utc"])
Qualifies(r) == r.order_id # NA /\ r.mobile_number # NAStr /\ ~r.order_dt_utc.nat

MinOf(S) == CHOOSE x \in S : \A y \in S : x <= y

MaxOf(S) == CHOOSE x \in S : \A y \in S : x >= y

\* rows of the group of one order_id whose column Col is not null
NonNullOfGroup(rows, id, Col(_), IsNull(_)) ==
    {i \in 1..Len(rows) : rows[i].order_id = id /\ ~IsNull(Col(rows[i]))}

\* the variant with agg "last"
LastIdx(idx) == MaxOf(idx)

\* agg "first" picks the earliest row
FirstIdx(idx) == MinOf(idx)

\* agg "first" of one column: the first value of the group that is not null
AggFirst(rows, id, Col(_), IsNull(_), null) ==
    LET idx == NonNullOfGroup(rows, id, Col, IsNull)
    IN  IF idx = {} THEN null ELSE Col(rows[FirstIdx(idx)])

IsNAStr(m) == m = NAStr

IsNaT(d) == d.nat

NeverNull(x) == FALSE

\* lines 64-67: groupby("order_id", as_index=False).agg({...: "first"});
\* groupby drops the <NA> key and sorts the keys
GroupByOrderIdFirst(rows) ==
    LET ids  == {rows[i].order_id : i \in 1..Len(rows)} \ {NA}
        keys == SortSet(ids, StrLess)
    IN  [k \in 1..Len(keys) |->
            [order_id      |-> keys[k],
             mobile_number |-> AggFirst(rows, keys[k], LAMBDA r : r.mobile_number, IsNAStr, NAStr),
             order_dt_utc  |-> AggFirst(rows, keys[k], LAMBDA r : r.order_dt_utc, IsNaT, NaT),
             total_amount  |-> AggFirst(rows, keys[k], LAMBDA r : r.total_amount, NeverNull, 0)]]

DropUnqualified(rows) == SelectSeq(rows, Qualifies)

load_orders_xml(raw) == GroupByOrderIdFirst(DropUnqualified(MapSeq(raw, NormalizeOrderLine)))

\* whether load_orders_xml raises on this file
LoadOrdersRaises(raw) == \E i \in 1..Len(raw) : ResolveRaises(raw[i].order_date_time)

(***************************************************************************)
(* load_customers_csv                                                      *)
(***************************************************************************)
\* na_values=["", "NA", "null", "None", "NaN"] for a name or a region
NaValues == {"", "NA", "null", "None", "NaN"}

ReadCsvField(x) == IF x \in NaValues THEN NA ELSE x

\* the same for a column kept as characters: the empty field is <NA>
ReadCsvChars(x) == IF x = <<>> \/ x = <<"N", "A">> THEN NAStr ELSE x

FillUnknown(x) == IF x = NA THEN "Unknown" ELSE x

\* lines 40-43
NormalizeCustomer(c) ==
    [customer_name |-> ReadCsvField(c.customer_name),
     mobile_number |-> StripNonDigits(ReadCsvChars(c.mobile_number)),
     region        |-> FillUnknown(ReadCsvField(c.region))]

\* line 44: dropna(subset=["customer_name", "mobile_number"])
CustomerComplete(c) == c.customer_name # NA /\ c.mobile_number # NAStr

\* line 45: drop_duplicates(subset=["mobile_number"]), the first occurrence kept
DropDuplicateMobiles(rows) ==
    LET keep == {i \in 1..Len(rows) :
                    \A j \in 1..(i - 1) : rows[j].mobile_number # rows[i].mobile_number}
        idx  == SortSet(keep, <)
    IN  [k \in 1..Len(idx) |-> rows[idx[k]]]

load_customers_csv(raw) ==
    DropDuplicateMobiles(SelectSeq(MapSeq(raw, NormalizeCustomer), CustomerComplete))

(***************************************************************************)
(* KPIs of in_memory_pipeline                                              *)
(***************************************************************************)
\* timedelta(days=30)
Window30d == 1440

\* length of a calendar month (to_period("M"), YEAR/MONTH): 30 days
MonthLen == 1440

Month(t) == t \div MonthLen

\* utcoffset() of an aware datetime at a wall-clock time, fold=0: inside the
\* gap the offset before it, inside the repeated hour the first occurrence
PyOffsetAtWall(l) == IF GapEnd <= l /\ l < FoldEnd THEN StdOffset + DstShift ELSE StdOffset

\* now.astimezone(biz) - timedelta(days=30), then .astimezone(timezone.utc)
Cutoff30dUtc(now) ==
    LET wall == ToLocal(now) - Window30d
    IN  wall - PyOffsetAtWall(wall)

\* sort_values(col, ascending=False) with the default quicksort: descending
\* by value, rows of equal value in the order this build leaves them
TieBefore(i, j) == IF tieBreak = "stable" THEN i < j ELSE i > j

SortValuesDesc(rows, Val(_)) ==
    LET Before(i, j) == \/ Val(rows[i]) > Val(rows[j])
                        \/ Val(rows[i]) = Val(rows[j]) /\ TieBefore(i, j)
        perm == SortSet(1..Len(rows), Before)
    IN  [k \in 1..Len(rows) |-> rows[perm[k]]]

\* lines 74-78
kpi_repeat_customers(o) ==
    LET kept    == SelectSeq(o, LAMBDA r : r.mobile_number # NAStr)
        mobiles == SortSet({kept[i].mobile_number : i \in 1..Len(kept)}, LexLess)
        sizes   == [k \in 1..Len(mobiles) |->
                      [mobile_number |-> mobiles[k],
                       order_count   |->
                          Cardinality({i \in 1..Len(kept) : kept[i].mobile_number = mobiles[k]})]]
    IN  SortValuesDesc(SelectSeq(sizes, LAMBDA r : r.order_count > 1),
                       LAMBDA r : r.order_count)

\* lines 81-86: months in the business time zone, ascending
kpi_monthly_trends(o) ==
    LET MonthOf(i) == Month(ToLocal(o[i].order_dt_utc.t))
        months     == SortSet({MonthOf(i) : i \in 1..Len(o)}, <)
    IN  [k \in 1..Len(months) |->
            [year_month   |-> months[k],
             total_orders |-> Cardinality({i \in 1..Len(o) : MonthOf(i) = months[k]})]]

\* the variant with how="inner"
MergeInner(o, c) ==
    {<<i, j>> \in (1..Len(o)) \X (1..Len(c)) : c[j].mobile_number = o[i].mobile_number}

\* orders.merge(customers, on="mobile_number", how="left"): the pairs
\* (order row, customer row), customer row 0 for an order that matches none
MergeLeft(o, c) ==
    {<<i, j>> \in (1..Len(o)) \X (0..Len(c)) :
        IF j = 0 THEN \A k \in 1..Len(c) : c[k].mobile_number # o[i].mobile_number
        ELSE c[j].mobile_number = o[i].mobile_number}

RECURSIVE SumAmounts(_, _)
SumAmounts(pairs, o) ==
    IF pairs = {} THEN 0
    ELSE LET p == CHOOSE q \in pairs : TRUE
         IN  o[p[1]].total_amount + SumAmounts(pairs \ {p}, o)

\* merged["region"].fillna("Unknown")
MergedRegion(p, c) == IF p[2] = 0 THEN "Unknown" ELSE FillUnknown(c[p[2]].region)

\* merged["customer_name"].fillna("Unknown")
MergedName(p, c) == IF p[2] = 0 THEN "Unknown" ELSE FillUnknown(c[p[2]].customer_name)

\* lines 89-94
kpi_regional_revenue(c, o) ==
    LET merged  == MergeLeft(o, c)
        regions == SortSet({MergedRegion(p, c) : p \in merged}, StrLess)
        sums    == [k \in 1..Len(regions) |->
                      [region  |-> regions[k],
                       revenue |-> SumAmounts({p \in merged : MergedRegion(p, c) = regions[k]}, o)]]
    IN  SortValuesDesc(sums, LAMBDA r : r.revenue)

\* line 101: the orders at or after the cutoff
RecentOrders(o, now) == SelectSeq(o, LAMBDA r : r.order_dt_utc.t >= Cutoff30dUtc(now))

\* lines 97-108
kpi_top_spenders_30d(c, o, now) ==
    LET recent == RecentOrders(o, now)
        merged == MergeLeft(recent, c)
        names  == SortSet({MergedName(p, c) : p \in merged}, StrLess)
        sums   == [k \in 1..Len(names) |->
                     [customer_name |-> names[k],
                      total_spent   |->
                         SumAmounts({p \in merged : MergedName(p, c) = names[k]}, recent)]]
    IN  SortValuesDesc(sums, LAMBDA r : r.total_spent)

NoKpis == [repeat |-> <<>>, monthly |-> <<>>, regional |-> <<>>, top30 |-> <<>>]

(***************************************************************************)
(* in_memory_pipeline: one run of the process                              *)
(***************************************************************************)
\* the input files grow while the process has not started
ReadCustomerRow(c) ==
    /\ pc = "input"
    /\ rawCustomers' = Append(rawCustomers, c)
    /\ UNCHANGED <<rawOrders, clock, tieBreak, memVars, sqlVars>>

ReadOrderLine(l) ==
    /\ pc = "input"
    /\ rawOrders' = Append(rawOrders, l)
    /\ UNCHANGED <<rawCustomers, clock, tieBreak, memVars, sqlVars>>

\* line 23: NOW_UTC = datetime.now(timezone.utc), when the module is loaded
ImportModule ==
    /\ pc = "input"
    /\ pc' = "main"
    /\ NOW_UTC' = clock
    /\ UNCHANGED <<inputVars, clock, tieBreak, customers, orders, kpis, prevRun, sqlVars>>

\* line 118
LoadCustomers ==
    /\ pc = "main"
    /\ customers' = load_customers_csv(rawCustomers)
    /\ pc' = "customers"
    /\ UNCHANGED <<inputVars, clock, tieBreak, NOW_UTC, orders, kpis, prevRun, sqlVars>>

\* line 119, and lines 135-137 when it raises
LoadOrders ==
    /\ pc = "customers"
    /\ IF LoadOrdersRaises(rawOrders)
       THEN pc' = "failed" /\ UNCHANGED orders
       ELSE pc' = "orders" /\ orders' = load_orders_xml(rawOrders)
    /\ UNCHANGED <<inputVars, clock, tieBreak, NOW_UTC, customers, kpis, prevRun, sqlVars>>

\* lines 121-129
ComputeKpis ==
    /\ pc = "orders"
    /\ kpis' = [repeat   |-> kpi_repeat_customers(orders),
                monthly  |-> kpi_monthly_trends(orders),
                regional |-> kpi_regional_revenue(customers, orders),
                top30    |-> kpi_top_spenders_30d(customers, orders, NOW_UTC)]
    /\ pc' = "done"
    /\ UNCHANGED <<inputVars, clock, tieBreak, NOW_UTC, customers, orders, prevRun, sqlVars>>

(***************************************************************************)
(* Inputs                                                                  *)
(***************************************************************************)
RawTime(l) == [parse |-> TRUE, local |-> l]

Garbage == [parse |-> FALSE, local |-> 0]

Num(v) == [num |-> TRUE, v |-> v]

NotANumber == [num |-> FALSE, v |-> 0]

\* the wall clock when the process starts
ClockValues == {1450, 2900}

InitMem ==
    /\ pc = "input"
    /\ NOW_UTC = 0
    /\ customers = <<>>
    /\ orders = <<>>
    /\ kpis = NoKpis
    /\ prevRun = <<>>

(***************************************************************************)
(* in_memory_pipeline run a second time                                    *)
(***************************************************************************)
\* the wall clock moves on between two runs
Tick ==
    /\ pc = "start"
    /\ \E t \in ClockValues : t > clock /\ clock' = t
    /\ UNCHANGED <<inputVars, tieBreak, memVars, sqlVars>>

\* the process is started again on the same files
Restart ==
    /\ pc = "done"
    /\ prevRun = <<>>
    /\ prevRun' = <<[customers |-> customers, orders |-> orders, kpis |-> kpis]>>
    /\ pc' = "start"
    /\ UNCHANGED <<inputVars, clock, tieBreak, NOW_UTC, customers, orders, kpis, sqlVars>>

\* line 23 again, in the new process
ImportAgain ==
    /\ pc = "start"
    /\ pc' = "main"
    /\ NOW_UTC' = clock
    /\ UNCHANGED <<inputVars, clock, tieBreak, customers, orders, kpis, prevRun, sqlVars>>

(***************************************************************************)
(* load_to_mysql: the loaders                                              *)
(***************************************************************************)
\* pd.read_csv(CUSTOMERS_CSV, dtype="string"): the default missing values
ReadCustomerDefault(c) ==
    [customer_name |-> ReadCsvField(c.customer_name),
     mobile_number |-> ReadCsvChars(c.mobile_number),
     region        |-> ReadCsvField(c.region)]

\* lines 41-44: duplicates dropped on the mobile_number as written
load_customers(raw) == DropDuplicateMobiles(MapSeq(raw, ReadCustomerDefault))

\* lines 47-56: only the timestamp is converted
UploadOrderLine(l) ==
    [order_id      |-> l.order_id,
     mobile_number |-> l.mobile_number,
     total_amount  |-> l.total_amount,
     order_dt_utc  |-> ResolveUtc(l.order_date_time)]

HasTimestamp(r) == ~r.order_dt_utc.nat

\* lines 61-65: groupby("order_id").agg(first) of each column
GroupByOrderIdUpload(rows) ==
    LET ids  == {rows[i].order_id : i \in 1..Len(rows)} \ {NA}
        keys == SortSet(ids, StrLess)
    IN  [k \in 1..Len(keys) |->
            [order_id      |-> keys[k],
             mobile_number |-> AggFirst(rows, keys[k], LAMBDA r : r.mobile_number, IsNAStr, NAStr),
             order_dt_utc  |-> AggFirst(rows, keys[k], LAMBDA r : r.order_dt_utc, IsNaT, NaT),
             total_amount  |-> AggFirst(rows, keys[k], LAMBDA r : r.total_amount, NeverNull, Num(0))]]

\* lines 46-67
load_orders(raw) == GroupByOrderIdUpload(SelectSeq(MapSeq(raw, UploadOrderLine), HasTimestamp))

(***************************************************************************)
(* run_kpis_sql_fast: the queries                                          *)
(***************************************************************************)
\* DATA_HORIZON = "24 MONTH"
DataHorizonMonths == 24

\* a value of the total_amount column as SUM() reads it
SqlNum(a) == IF a.num THEN a.v ELSE 0

\* WHERE order_date_time_utc >= (NOW() - INTERVAL 24 MONTH)
InHorizon(r, now) == r.order_dt_utc.t >= now - DataHorizonMonths * MonthLen

\* lines 68-75: the rows INSERT ... SELECT adds, in primary key order
SummaryRows(o, now) ==
    LET kept   == SelectSeq(o, LAMBDA r : InHorizon(r, now))
        months == SortSet({Month(kept[i].order_dt_utc.t) : i \in 1..Len(kept)}, <)
    IN  [k \in 1..Len(months) |->
            [yr_mn        |-> months[k],
             total_orders |->
                Cardinality({i \in 1..Len(kept) : Month(kept[i].order_dt_utc.t) = months[k]})]]

\* ORDER BY mobile_number ASC: NULL first
SqlMobileLess(a, b) ==
    IF a = NAStr THEN b # NAStr ELSE b # NAStr /\ LexLess(a, b)

\* lines 88-94
SQL_REPEAT(o) ==
    LET mobiles == {o[i].mobile_number : i \in 1..Len(o)}
        Count(m) == Cardinality({i \in 1..Len(o) : o[i].mobile_number = m})
        Before(a, b) == Count(a) > Count(b) \/ (Count(a) = Count(b) /\ SqlMobileLess(a, b))
        keys == SortSet({m \in mobiles : Count(m) > 1}, Before)
    IN  [k \in 1..Len(keys) |-> [mobile_number |-> keys[k], order_count |-> Count(keys[k])]]

\* lines 96-100
SQL_MONTHLY(summary) == summary

\* JOIN customers c ON c.mobile_number = o.mobile_number: NULL matches nothing
SqlJoin(o, c) ==
    {<<i, j>> \in (1..Len(o)) \X (1..Len(c)) :
        o[i].mobile_number # NAStr /\ c[j].mobile_number = o[i].mobile_number}

RECURSIVE SqlSum(_, _)
SqlSum(pairs, o) ==
    IF pairs = {} THEN 0
    ELSE LET p == CHOOSE q \in pairs : TRUE
         IN  SqlNum(o[p[1]].total_amount) + SqlSum(pairs \ {p}, o)

\* ORDER BY SUM(...) DESC says nothing about equal sums: as the server leaves them
SqlTieBefore(i, j) == IF dbTie = "stable" THEN i < j ELSE i > j

SqlOrderBySumDesc(keys, Total(_)) ==
    LET Before(i, j) == \/ Total(keys[i]) > Total(keys[j])
                        \/ Total(keys[i]) = Total(keys[j]) /\ SqlTieBefore(i, j)
        perm == SortSet(1..Len(keys), Before)
    IN  [k \in 1..Len(keys) |-> keys[perm[k]]]

\* lines 102-111, DATA_HORIZON set
sql_regional(c, o, now) ==
    LET joined  == {p \in SqlJoin(o, c) : InHorizon(o[p[1]], now)}
        regions == SortSet({c[p[2]].region : p \in joined}, StrLess)
        Total(g) == SqlSum({p \in joined : c[p[2]].region = g}, o)
        sorted  == SqlOrderBySumDesc(regions, Total)
    IN  [k \in 1..Len(sorted) |-> [region |-> sorted[k], revenue |-> Total(sorted[k])]]

\* lines 40-43
cutoff_30d_utc_naive(now) == Cutoff30dUtc(now)

\* lines 121-128
SQL_TOP_30D(c, o, cutoff) ==
    LET joined == {p \in SqlJoin(o, c) : o[p[1]].order_dt_utc.t >= cutoff}
        names  == SortSet({c[p[2]].customer_name : p \in joined}, StrLess)
        Total(g) == SqlSum({p \in joined : c[p[2]].customer_name = g}, o)
        sorted == SqlOrderBySumDesc(names, Total)
    IN  [k \in 1..Len(sorted) |-> [customer_name |-> sorted[k], total_spent |-> Total(sorted[k])]]

(***************************************************************************)
(* The MySQL store                                                         *)
(***************************************************************************)
NoTable == [exists |-> FALSE, timecol |-> "", rows |-> <<>>]

Table(col, rows) == [exists |-> TRUE, timecol |-> col, rows |-> rows]

NoTxn == [table |-> "", rows |-> <<>>]

\* the store once the open transaction is committed
Committed(d, t) ==
    IF t.table = "" THEN d
    ELSE [d EXCEPT ![t.table].rows = d[t.table].rows \o t.rows]

Idle == [pc |-> "idle"]

(***************************************************************************)
(* load_to_mysql.upload_to_mysql                                           *)
(***************************************************************************)
UpUnchanged == <<inputVars, clock, tieBreak, memVars, dbTie, sq, seen>>

\* lines 74-76: engine.begin(), load_customers(), load_orders(); before is
\* the store as it was at that moment
UpLoad ==
    /\ up.pc = "idle"
    /\ sq.pc = "idle"
    /\ up' = [pc |-> "loaded",
              before |-> db,
              customers |-> load_customers(rawCustomers),
              orders |-> load_orders(rawOrders)]
    /\ UNCHANGED <<db, txn, UpUnchanged>>

\* line 78, to_sql(if_exists="replace"): DROP TABLE, a statement MySQL commits
UpDropCustomers ==
    /\ up.pc = "loaded"
    /\ db' = [Committed(db, txn) EXCEPT !.customers = NoTable]
    /\ txn' = NoTxn
    /\ up' = [up EXCEPT !.pc = "customers_dropped"]
    /\ UNCHANGED UpUnchanged

\* line 78: CREATE TABLE customers
UpCreateCustomers ==
    /\ up.pc = "customers_dropped"
    /\ db' = [Committed(db, txn) EXCEPT !.customers = Table("", <<>>)]
    /\ txn' = NoTxn
    /\ up' = [up EXCEPT !.pc = "customers_created"]
    /\ UNCHANGED UpUnchanged

\* line 78: INSERT INTO customers, inside the transaction
UpInsertCustomers ==
    /\ up.pc = "customers_created"
    /\ txn' = [table |-> "customers", rows |-> up.customers]
    /\ up' = [up EXCEPT !.pc = "customers_inserted"]
    /\ UNCHANGED <<db, UpUnchanged>>

\* line 79: DROP TABLE orders commits the customers rows
UpDropOrders ==
    /\ up.pc = "customers_inserted"
    /\ db' = [Committed(db, txn) EXCEPT !.orders = NoTable]
    /\ txn' = NoTxn
    /\ up' = [up EXCEPT !.pc = "orders_dropped"]
    /\ UNCHANGED UpUnchanged

\* line 79: CREATE TABLE orders, with the columns of the frame load_orders built
UpCreateOrders ==
    /\ up.pc = "orders_dropped"
    /\ db' = [Committed(db, txn) EXCEPT !.orders = Table("order_dt_utc", <<>>)]
    /\ txn' = NoTxn
    /\ up' = [up EXCEPT !.pc = "orders_created"]
    /\ UNCHANGED UpUnchanged

\* line 79: INSERT INTO orders, inside the transaction
UpInsertOrders ==
    /\ up.pc = "orders_created"
    /\ txn' = [table |-> "orders", rows |-> up.orders]
    /\ up' = [up EXCEPT !.pc = "orders_inserted"]
    /\ UNCHANGED <<db, UpUnchanged>>

\* the end of "with engine.begin()": COMMIT
UpCommit ==
    /\ up.pc = "orders_inserted"
    /\ db' = Committed(db, txn)
    /\ txn' = NoTxn
    /\ up' = [up EXCEPT !.pc = "done"]
    /\ UNCHANGED UpUnchanged

UpRunning ==
    up.pc \in {"loaded", "customers_dropped", "customers_created", "customers_inserted",
               "orders_dropped", "orders_created", "orders_inserted"}

\* lines 83-89: a statement fails; the transaction is rolled back, sys.exit(1)
UpFail ==
    /\ UpRunning
    /\ txn' = NoTxn
    /\ up' = [up EXCEPT !.pc = "failed"]
    /\ UNCHANGED <<db, UpUnchanged>>

(***************************************************************************)
(* run_kpis_sql_fast.main                                                  *)
(***************************************************************************)
SqUnchanged == <<inputVars, clock, tieBreak, memVars, dbTie, up, seen>>

NoSqlKpis == [repeat |-> <<>>, monthly |-> <<>>, regional |-> <<>>, top30 |-> <<>>]

\* line 144: engine.begin(); before is the summary as it was at that moment
SqBegin ==
    /\ sq.pc = "idle"
    /\ ~UpRunning
    /\ sq' = [pc |-> "begun", before |-> db.orders_monthly.rows, kpis |-> NoSqlKpis]
    /\ UNCHANGED <<db, txn, SqUnchanged>>

\* line 80: CREATE TABLE IF NOT EXISTS orders_monthly
SqCreateSummary ==
    /\ sq.pc = "begun"
    /\ db' = IF db.orders_monthly.exists THEN db
             ELSE [db EXCEPT !.orders_monthly = Table("", <<>>)]
    /\ sq' = [sq EXCEPT !.pc = "created"]
    /\ UNCHANGED <<txn, SqUnchanged>>

\* line 81: TRUNCATE TABLE orders_monthly, a statement MySQL commits
SqTruncate ==
    /\ sq.pc = "created"
    /\ db' = [Committed(db, txn) EXCEPT !.orders_monthly.rows = <<>>]
    /\ txn' = NoTxn
    /\ sq' = [sq EXCEPT !.pc = "truncated"]
    /\ UNCHANGED SqUnchanged

\* the INSERT ... SELECT names orders.order_date_time_utc
SummaryInsertable == db.orders.exists /\ db.orders.timecol = "order_date_time_utc"

\* lines 82-85: INSERT INTO orders_monthly ... inside the transaction; an
\* unknown table or column is an error: rollback, sys.exit(1) (lines 160-165)
SqInsertSummary ==
    /\ sq.pc = "truncated"
    /\ IF SummaryInsertable
       THEN /\ txn' = [table |-> "orders_monthly", rows |-> SummaryRows(db.orders.rows, clock)]
            /\ sq' = [sq EXCEPT !.pc = "inserted"]
       ELSE /\ txn' = NoTxn
            /\ sq' = [sq EXCEPT !.pc = "failed"]
    /\ UNCHANGED <<db, SqUnchanged>>

\* line 145, the end of "with engine.begin()": COMMIT
SqCommit ==
    /\ sq.pc = "inserted"
    /\ db' = Committed(db, txn)
    /\ txn' = NoTxn
    /\ sq' = [sq EXCEPT !.pc = "refreshed"]
    /\ UNCHANGED SqUnchanged

\* lines 148-152: the four queries
SqQueries ==
    /\ sq.pc = "refreshed"
    /\ IF db.customers.exists
       THEN sq' = [sq EXCEPT
                     !.pc = "done",
                     !.kpis = [repeat   |-> SQL_REPEAT(db.orders.rows),
                               monthly  |-> SQL_MONTHLY(db.orders_monthly.rows),
                               regional |-> sql_regional(db.customers.rows, db.orders.rows, clock),
                               top30    |-> SQL_TOP_30D(db.customers.rows, db.orders.rows,
                                                        cutoff_30d_utc_naive(clock))]]
       ELSE sq' = [sq EXCEPT !.pc = "failed"]
    /\ UNCHANGED <<db, txn, SqUnchanged>>

Refreshing == sq.pc \in {"begun", "created", "truncated", "inserted"}

\* lines 160-168: a statement of the refresh fails; rollback, sys.exit(1)
SqFail ==
    /\ Refreshing
    /\ txn' = NoTxn
    /\ sq' = [sq EXCEPT !.pc = "failed"]
    /\ UNCHANGED <<db, SqUnchanged>>

\* another connection runs SELECT ... FROM orders_monthly: it sees what is
\* committed; refreshing tells whether the refresh was under way
ReadSummary ==
    /\ db.orders_monthly.exists
    /\ seen' = [read |-> TRUE, refreshing |-> Refreshing, rows |-> db.orders_monthly.rows]
    /\ UNCHANGED <<inputVars, clock, tieBreak, memVars, db, dbTie, txn, up, sq>>

NotRead == [read |-> FALSE, refreshing |-> FALSE, rows |-> <<>>]

EmptyStore == [customers |-> NoTable, orders |-> NoTable, orders_monthly |-> NoTable]

\* no store is used
InitNoSql ==
    /\ db = EmptyStore
    /\ dbTie = "stable"
    /\ txn = NoTxn
    /\ up = Idle
    /\ sq = Idle
    /\ seen = NotRead

(***************************************************************************)
(* SpecOrders: load_orders_xml over every short file of order lines        *)
(***************************************************************************)
MaxOrderLines == 2

\* times: 00:30, 02:30 in the skipped hour, 02:30 in the repeated hour
OrderLines ==
    [order_id        : {"O1", "O2", NA},
     mobile_number   : {<<"9", "-", "8">>, NAStr},
     order_date_time : {RawTime(1), RawTime(5), RawTime(101), Garbage},
     total_amount    : {Num(250), Num(999)}]

InitOrders ==
    /\ rawCustomers = <<>>
    /\ rawOrders = <<>>
    /\ clock = 1450
    /\ tieBreak = "stable"
    /\ InitMem
    /\ InitNoSql

NextOrders ==
    \/ \E l \in OrderLines : Len(rawOrders) < MaxOrderLines /\ ReadOrderLine(l)
    \/ ImportModule
    \/ LoadCustomers
    \/ LoadOrders
    \/ ComputeKpis

SpecOrders == InitOrders /\ [][NextOrders]_vars

(***************************************************************************)
(* Properties of load_orders_xml                                           *)
(***************************************************************************)
OrdersLoaded == pc \in {"orders", "done"}

\* a raw line with an order_id, a mobile_number and a timestamp that resolves
LineQualifies(i) ==
    /\ rawOrders[i].order_id # NA
    /\ rawOrders[i].mobile_number # NAStr
    /\ rawOrders[i].order_date_time.parse
    /\ ~Ambiguous(rawOrders[i].order_date_time.local)

QualifyingLines(id) == {i \in 1..Len(rawOrders) : rawOrders[i].order_id = id /\ LineQualifies(i)}

RawOrderIds == {rawOrders[i].order_id : i \in 1..Len(rawOrders)}

RowsOf(id) == {k \in 1..Len(orders) : orders[k].order_id = id}

\* the canonical row k carries the three fields of raw line i
RowFromLine(k, i) ==
    /\ orders[k].mobile_number = StripNonDigits(rawOrders[i].mobile_number)
    /\ orders[k].order_dt_utc = ResolveUtc(rawOrders[i].order_date_time)
    /\ orders[k].total_amount = ToNumericFill0(rawOrders[i].total_amount)

\* C1: the canonical orders table holds exactly one row per order_id that has
\* a qualifying line, none for any other order_id, and the row's mobile_number,
\* order_dt_utc and total_amount are those of the first qualifying line of
\* that order_id in input order.
C1_OneRowFromFirstQualifyingLine ==
    OrdersLoaded =>
        /\ \A k \in 1..Len(orders) : orders[k].order_id \in RawOrderIds \ {NA}
        /\ \A id \in RawOrderIds :
              IF QualifyingLines(id) = {}
              THEN RowsOf(id) = {}
              ELSE /\ Cardinality(RowsOf(id)) = 1
                   /\ \A k \in RowsOf(id) : RowFromLine(k, MinOf(QualifyingLines(id)))

\* two qualifying lines of O1 with amounts 250 then 999 gave one row with 250
C1_Witness ==
    /\ OrdersLoaded
    /\ Len(rawOrders) = 2
    /\ QualifyingLines("O1") = {1, 2}
    /\ rawOrders[1].total_amount = Num(250)
    /\ rawOrders[2].total_amount = Num(999)
    /\ Len(orders) = 1
    /\ orders[1].total_amount = 250

\* first qualifying line of the order_id of canonical row k
FirstLineOfRow(k) == MinOf(QualifyingLines(orders[k].order_id))

HalfPastTwo == GapStart + 1

\* C7 as stated: a line timed 02:30 in the skipped hour 02:00-03:00 is stored
\* as the UTC instant of 03:30 local time.
C7_ShiftedToHalfPastThree ==
    OrdersLoaded =>
        \A k \in 1..Len(orders) :
            rawOrders[FirstLineOfRow(k)].order_date_time = RawTime(HalfPastTwo)
                => /\ ~orders[k].order_dt_utc.nat
                   /\ ToLocal(orders[k].order_dt_utc.t) = GapEnd + 1

\* C7 amended: a line timed 02:30 in the skipped hour 02:00-03:00 is stored as
\* the UTC instant of 03:00 local time, the first instant after the gap, which
\* is the instant at which the offset changes.
C7_ShiftedToEndOfGap ==
    OrdersLoaded =>
        \A k \in 1..Len(orders) :
            rawOrders[FirstLineOfRow(k)].order_date_time = RawTime(HalfPastTwo)
                => /\ orders[k].order_dt_utc = Ts(GapStart - StdOffset)
                   /\ ToLocal(orders[k].order_dt_utc.t) = GapEnd

\* a line timed 02:30 in the skipped hour was loaded into a canonical row
C7_Witness ==
    /\ OrdersLoaded
    /\ \E k \in 1..Len(orders) :
          rawOrders[FirstLineOfRow(k)].order_date_time = RawTime(HalfPastTwo)

\* C10: a line with an unparseable or ambiguous timestamp, or a null order_id
\* or mobile_number, never aborts the run and is removed before grouping: every
\* canonical row carries the fields of one qualifying line of its order_id and
\* has no null field, an order_id with a qualifying line keeps its row whatever
\* failing lines precede it, and an order_id whose lines all fail has no row.
C10_FailingLinesExcluded ==
    /\ pc # "failed"
    /\ OrdersLoaded =>
          /\ \A k \in 1..Len(orders) :
                /\ orders[k].order_id # NA
                /\ orders[k].mobile_number # NAStr
                /\ ~orders[k].order_dt_utc.nat
                /\ \E i \in QualifyingLines(orders[k].order_id) : RowFromLine(k, i)
          /\ \A id \in RawOrderIds : (RowsOf(id) # {}) <=> (QualifyingLines(id) # {})

\* an unparseable line of O1 came first, a qualifying line of O1 second, and
\* O2 had only a line in the repeated hour: O1 has its row, O2 has none
C10_Witness ==
    /\ OrdersLoaded
    /\ Len(rawOrders) = 2
    /\ rawOrders[1].order_id = "O1"
    /\ rawOrders[1].order_date_time = Garbage
    /\ rawOrders[2].order_id = "O1"
    /\ LineQualifies(2)
    /\ RowsOf("O1") # {}
    /\ \A k \in RowsOf("O1") : RowFromLine(k, 2)

(***************************************************************************)
(* Spec: the whole run of in_memory_pipeline over short input files        *)
(***************************************************************************)
MaxCustomers == 2

MaxKpiLines == 2

\* "9-8" and "98" are one mobile number once normalised; a blank name or
\* region is a missing value
CustomerRows ==
    {[customer_name |-> "A", mobile_number |-> <<"9", "-", "8">>, region |-> "North"],
     [customer_name |-> "B", mobile_number |-> <<"9", "8">>,      region |-> "East"],
     [customer_name |-> "B", mobile_number |-> <<"9", "8">>,      region |-> ""],
     [customer_name |-> "",  mobile_number |-> <<"9", "-", "8">>, region |-> "North"]}

\* mobile 98 may have a customer, 55 has none; local times 00:30 of day 0,
\* 10:30 of day 0 (the cutoff of a run started at clock 1450) and 00:30 of
\* the first day of the next month; every line of an order carries the total
\* of the order
KpiLines ==
    {l \in [order_id        : {"O1", "O2"},
            mobile_number   : {<<"9", "8">>, <<"5", "5">>},
            order_date_time : {RawTime(1), RawTime(21), RawTime(1441)},
            total_amount    : {Num(250), Num(999)}] :
        (l.order_id = "O1") <=> (l.total_amount = Num(250))}

Init ==
    /\ rawCustomers = <<>>
    /\ rawOrders = <<>>
    /\ clock = 1450
    /\ tieBreak \in {"stable", "reversed"}
    /\ InitMem
    /\ InitNoSql

Next ==
    \/ \E c \in CustomerRows : Len(rawCustomers) < MaxCustomers /\ ReadCustomerRow(c)
    \/ \E l \in KpiLines : Len(rawOrders) < MaxKpiLines /\ ReadOrderLine(l)
    \/ ImportModule
    \/ LoadCustomers
    \/ LoadOrders
    \/ ComputeKpis

Spec == Init /\ [][Next]_vars

(***************************************************************************)
(* Properties of kpi_regional_revenue and kpi_top_spenders_30d             *)
(***************************************************************************)
Done == pc = "done"

CustomersOf(i) == {j \in 1..Len(customers) : customers[j].mobile_number = orders[i].mobile_number}

\* region and customer name an order is to be attributed to
OrderRegion(i) ==
    IF CustomersOf(i) = {} THEN "Unknown" ELSE customers[MinOf(CustomersOf(i))].region

OrderName(i) ==
    IF CustomersOf(i) = {} THEN "Unknown" ELSE customers[MinOf(CustomersOf(i))].customer_name

InWindow(i) == orders[i].order_dt_utc.t >= Cutoff30dUtc(NOW_UTC)

RECURSIVE SumOrders(_)
SumOrders(idx) ==
    IF idx = {} THEN 0
    ELSE LET i == MinOf(idx) IN orders[i].total_amount + SumOrders(idx \ {i})

RECURSIVE SumRevenue(_)
SumRevenue(rows) == IF rows = <<>> THEN 0 ELSE Head(rows).revenue + SumRevenue(Tail(rows))

RECURSIVE SumSpent(_)
SumSpent(rows) == IF rows = <<>> THEN 0 ELSE Head(rows).total_spent + SumSpent(Tail(rows))

AllOrders == 1..Len(orders)

\* C6: every canonical order is counted in exactly one row of the regional
\* revenue (the row of its customer's region, "Unknown" when no customer has
\* its mobile_number), so the revenues add up to the total of all orders; and
\* in exactly one row of the top spenders if it is at or after the cutoff (the
\* row of its customer's name, "Unknown" when unmatched) and in none otherwise.
C6_EveryOrderCountedOnce ==
    Done =>
        /\ \A i \in AllOrders :
              Cardinality({k \in 1..Len(kpis.regional) :
                              kpis.regional[k].region = OrderRegion(i)}) = 1
        /\ \A k \in 1..Len(kpis.regional) :
              kpis.regional[k].revenue =
                 SumOrders({i \in AllOrders : OrderRegion(i) = kpis.regional[k].region})
        /\ SumRevenue(kpis.regional) = SumOrders(AllOrders)
        /\ \A i \in AllOrders :
              Cardinality({k \in 1..Len(kpis.top30) :
                              kpis.top30[k].customer_name = OrderName(i)})
                 = IF InWindow(i) THEN 1
                   ELSE IF \E h \in AllOrders : InWindow(h) /\ OrderName(h) = OrderName(i)
                        THEN 1 ELSE 0
        /\ \A k \in 1..Len(kpis.top30) :
              kpis.top30[k].total_spent =
                 SumOrders({i \in AllOrders :
                               InWindow(i) /\ OrderName(i) = kpis.top30[k].customer_name})
        /\ SumSpent(kpis.top30) = SumOrders({i \in AllOrders : InWindow(i)})

\* two customer rows with one mobile number were read; of the two canonical
\* orders one matches the customer and lies before the cutoff, the other
\* matches no customer and lies exactly at the cutoff
C6_Witness ==
    /\ Done
    /\ Len(rawCustomers) = 2
    /\ Len(customers) = 1
    /\ Len(orders) = 2
    /\ \E i, h \in AllOrders :
          /\ CustomersOf(i) # {} /\ ~InWindow(i)
          /\ CustomersOf(h) = {} /\ orders[h].order_dt_utc.t = Cutoff30dUtc(NOW_UTC)
          /\ \E k \in 1..Len(kpis.regional) :
                kpis.regional[k] = [region |-> "Unknown", revenue |-> orders[h].total_amount]
          /\ kpis.top30 = <<[customer_name |-> "Unknown", total_spent |-> orders[h].total_amount]>>

(***************************************************************************)
(* SpecParity: both loaders and both KPI strategies on the same input      *)
(***************************************************************************)
\* the canonical orders as rows of the orders table
DbRows(o) == [i \in 1..Len(o) |-> [o[i] EXCEPT !.total_amount = Num(@)]]

\* run_kpis_sql_fast.main, lines 144-152, on a store whose customers and
\* orders tables hold the canonical tables of the in-memory loaders
SqlOnCanonical ==
    /\ pc = "done"
    /\ sq.pc = "idle"
    /\ sq' = [pc     |-> "done",
              before |-> <<>>,
              kpis   |-> [repeat   |-> SQL_REPEAT(DbRows(orders)),
                          monthly  |-> SQL_MONTHLY(SummaryRows(DbRows(orders), clock)),
                          regional |-> sql_regional(customers, DbRows(orders), clock),
                          top30    |-> SQL_TOP_30D(customers, DbRows(orders),
                                                   cutoff_30d_utc_naive(clock))]]
    /\ UNCHANGED <<db, txn, SqUnchanged>>

MaxParityCustomers == 1

MaxParityLines == 2

ParityLines ==
    [order_id        : {"O1", "O2"},
     mobile_number   : {<<"9", "8">>, <<"9", "-", "8">>, NAStr},
     order_date_time : {RawTime(1), RawTime(1441)},
     total_amount    : {Num(250), NotANumber}]

InitParity ==
    /\ rawCustomers = <<>>
    /\ rawOrders = <<>>
    /\ clock = 1450
    /\ tieBreak \in {"stable", "reversed"}
    /\ InitMem
    /\ db = EmptyStore
    /\ dbTie \in {"stable", "reversed"}
    /\ txn = NoTxn
    /\ up = Idle
    /\ sq = Idle
    /\ seen = NotRead

NextParity ==
    \/ \E c \in CustomerRows : Len(rawCustomers) < MaxParityCustomers /\ ReadCustomerRow(c)
    \/ \E l \in ParityLines : Len(rawOrders) < MaxParityLines /\ ReadOrderLine(l)
    \/ ImportModule
    \/ LoadCustomers
    \/ LoadOrders
    \/ ComputeKpis
    \/ pc = "done" /\ UpLoad
    \/ SqlOnCanonical

SpecParity == InitParity /\ [][NextParity]_vars

MonthlyAsPairs(rows) == [k \in 1..Len(rows) |-> <<rows[k].year_month, rows[k].total_orders>>]

SummaryAsPairs(rows) == [k \in 1..Len(rows) |-> <<rows[k].yr_mn, rows[k].total_orders>>]

\* C4: on the same canonical tables each of the four KPIs of the SQL strategy
\* returns the same rows, in the same order, with the same totals, as the
\* in-memory strategy.
C4_SqlEqualsInMemory ==
    (Done /\ sq.pc = "done") =>
        /\ sq.kpis.repeat = kpis.repeat
        /\ SummaryAsPairs(sq.kpis.monthly) = MonthlyAsPairs(kpis.monthly)
        /\ sq.kpis.regional = kpis.regional
        /\ sq.kpis.top30 = kpis.top30

\* C5: the loaders of load_to_mysql produce the canonical customers and the
\* canonical orders tables that the in-memory loaders produce from the same
\* files.
C5_LoadersAgree ==
    (Done /\ up.pc = "loaded") =>
        /\ up.customers = customers
        /\ up.orders = DbRows(orders)

(***************************************************************************)
(* SpecRepeat: the repeat-customers KPI over up to four orders             *)
(***************************************************************************)
MaxRepeatLines == 4

RepeatLines ==
    [order_id        : {"O1", "O2", "O3", "O4"},
     mobile_number   : {<<"7">>, <<"9", "8">>},
     order_date_time : {RawTime(1)},
     total_amount    : {Num(250)}]

InitRepeat ==
    /\ rawCustomers = <<>>
    /\ rawOrders = <<>>
    /\ clock = 1450
    /\ tieBreak \in {"stable", "reversed"}
    /\ InitMem
    /\ InitNoSql

NextRepeat ==
    \/ \E l \in RepeatLines : Len(rawOrders) < MaxRepeatLines /\ ReadOrderLine(l)
    \/ ImportModule
    \/ LoadCustomers
    \/ LoadOrders
    \/ ComputeKpis
    \/ SqlOnCanonical

SpecRepeat == InitRepeat /\ [][NextRepeat]_vars

OrderCount(m) == Cardinality({i \in AllOrders : orders[i].mobile_number = m})

\* res lists exactly the mobile numbers with more than one canonical order,
\* each once with its count, by count descending and then mobile ascending
IsRepeatResult(res) ==
    /\ {res[k].mobile_number : k \in 1..Len(res)}
          = {orders[i].mobile_number : i \in {h \in AllOrders : OrderCount(orders[h].mobile_number) > 1}}
    /\ \A k \in 1..Len(res) : res[k].order_count = OrderCount(res[k].mobile_number)
    /\ \A k, h \in 1..Len(res) :
          k < h => \/ res[k].order_count > res[h].order_count
                   \/ /\ res[k].order_count = res[h].order_count
                      /\ LexLess(res[k].mobile_number, res[h].mobile_number)

\* C9: the repeat-customers result of kpi_repeat_customers, and that of
\* SQL_REPEAT, lists exactly the mobile numbers with more than one canonical
\* order, each with its count, by count descending, ties by mobile ascending.
C9_RepeatOrdered ==
    (Done /\ sq.pc = "done") =>
        /\ IsRepeatResult(kpis.repeat)
        /\ IsRepeatResult(sq.kpis.repeat)

(***************************************************************************)
(* SpecRerun: in_memory_pipeline run twice on the same files               *)
(***************************************************************************)
MaxRerunCustomers == 1

MaxRerunLines == 2

InitRerun ==
    /\ rawCustomers = <<>>
    /\ rawOrders = <<>>
    /\ clock = 1450
    /\ tieBreak \in {"stable", "reversed"}
    /\ InitMem
    /\ InitNoSql

NextRerun ==
    \/ \E c \in CustomerRows : Len(rawCustomers) < MaxRerunCustomers /\ ReadCustomerRow(c)
    \/ \E l \in KpiLines : Len(rawOrders) < MaxRerunLines /\ ReadOrderLine(l)
    \/ ImportModule
    \/ LoadCustomers
    \/ LoadOrders
    \/ ComputeKpis
    \/ Restart
    \/ Tick
    \/ ImportAgain

SpecRerun == InitRerun /\ [][NextRerun]_vars

\* C8: the second run on the same files yields the canonical tables and the
\* four KPI results of the first run, whatever the wall clock at each run.
C8_SecondRunEqualsFirst ==
    (Done /\ prevRun # <<>>) =>
        prevRun[1] = [customers |-> customers, orders |-> orders, kpis |-> kpis]

(***************************************************************************)
(* SpecDb: load_to_mysql, then run_kpis_sql_fast, with statements that may *)
(* fail and a concurrent reader of orders_monthly                          *)
(***************************************************************************)
DbCustomerFiles ==
    {<<>>,
     <<[customer_name |-> "A", mobile_number |-> <<"9", "-", "8">>, region |-> "North"]>>}

DbOrderFiles ==
    {<<>>,
     <<[order_id |-> "O1", mobile_number |-> <<"9", "8">>,
        order_date_time |-> RawTime(1), total_amount |-> Num(250)]>>}

\* a store that already holds the tables run_kpis_sql_fast queries, and the
\* summary of an earlier refresh, made when the second order was not there
OldStore ==
    [customers |->
        Table("", <<[customer_name |-> "A", mobile_number |-> <<"9", "8">>, region |-> "North"]>>),
     orders |->
        Table("order_date_time_utc",
              <<[order_id |-> "O1", mobile_number |-> <<"9", "8">>,
                 order_dt_utc |-> Ts(1430), total_amount |-> Num(250)],
                [order_id |-> "O2", mobile_number |-> <<"9", "8">>,
                 order_dt_utc |-> Ts(1440), total_amount |-> Num(999)]>>),
     orders_monthly |-> Table("", <<[yr_mn |-> 0, total_orders |-> 1]>>)]

InitDb ==
    /\ rawCustomers \in DbCustomerFiles
    /\ rawOrders \in DbOrderFiles
    /\ clock = 1450
    /\ tieBreak = "stable"
    /\ InitMem
    /\ db \in {EmptyStore, OldStore}
    /\ dbTie \in {"stable", "reversed"}
    /\ txn = NoTxn
    /\ up = Idle
    /\ sq = Idle
    /\ seen = NotRead

NextDb ==
    \/ UpLoad
    \/ UpDropCustomers
    \/ UpCreateCustomers
    \/ UpInsertCustomers
    \/ UpDropOrders
    \/ UpCreateOrders
    \/ UpInsertOrders
    \/ UpCommit
    \/ UpFail
    \/ SqBegin
    \/ SqCreateSummary
    \/ SqTruncate
    \/ SqInsertSummary
    \/ SqCommit
    \/ SqQueries
    \/ SqFail
    \/ ReadSummary

SpecDb == InitDb /\ [][NextDb]_vars

\* the summary the refresh is to leave in orders_monthly
NewSummary == SummaryRows(db.orders.rows, clock)

\* C2: a reader that reads orders_monthly while the refresh is under way sees
\* the complete summary as it was before the refresh or the complete new one.
C2_ReaderSeesOldOrNew ==
    (seen.read /\ seen.refreshing) =>
        \/ seen.rows = sq.before
        \/ SummaryInsertable /\ seen.rows = NewSummary

\* C3: when a statement of upload_to_mysql or of refresh_monthly_summary has
\* failed, the store holds no partial result: customers and orders are both
\* as they were or both replaced, and orders_monthly is as it was or rebuilt.
C3_NoPartialCommit ==
    /\ up.pc = "failed" =>
          \/ db.customers = up.before.customers /\ db.orders = up.before.orders
          \/ /\ db.customers = Table("", up.customers)
             /\ db.orders = Table("order_dt_utc", up.orders)
    /\ sq.pc = "failed" =>
          \/ db.orders_monthly.rows = sq.before
          \/ SummaryInsertable /\ db.orders_monthly.rows = NewSummary

====
